---- MODULE Spec2Model ----
(***************************************************************************)
(* Model of go_async_web_data (src/main.go): main launches one pingUrl     *)
(* goroutine per configured host, collects len(urls) PingResults from a    *)
(* buffered channel, sorts them, then does the same with fetchData and     *)
(* FetchResults.                                                           *)
(*                                                                         *)
(* The network is a fixture: what probing.NewPinger / pinger.Run answer    *)
(* for a hostname and what http.Get answers for a URL are functions of     *)
(* the hostname / URL.  The host list is drawn from every sequence of at   *)
(* most MaxHosts of the fixture's URLs (duplicates allowed) and a few      *)
(* longer lists, so every combination of per-unit success and failure      *)
(* occurs, and the goroutines interleave freely.                           *)
(***************************************************************************)
EXTENDS Integers, Sequences, FiniteSets, Bags, TLC

\* ------------------------------------------------------------------ bounds
\* Largest host list (len(urls)) explored.
MaxHosts == 2
\* Longest redirect chain a fetch unit is followed along (the code has no limit).
MaxHops == 3
\* Longest duration of a unit's network operation, in ticks of the model's clock.
MaxDelay == 2

\* --------------------------------------------------------------- constants
\* The nil error.
NIL == "nil"
\* pinger.Count = 3
PingCount == 3
\* bytes per MB: float64(bodySize) / 1024 / 1024
MiB == 1048576

\* -------------------------------------------------------- fixture: the URLs
UA == "https://www.a.io"
UB == "http://b.io"
UC == "c.io"
UD == "https://d.io"
UE == "https://e.io"
UF == "http://www.f.io"
UG == "https://g.io"
Sites == {UA, UB, UC, UD, UE, UF, UG}

B1 == "https://b.io/1"
B2 == "https://b.io/2"
D1 == "https://d.io/1"
G1 == "https://g.io/1"

\* ------------------------------------------------------------ the records
\* PingResult{URL: url}: every other field has Go's zero value.
NewPingResult(url) ==
  [URL |-> url, Domain |-> "", PacketsSent |-> 0, PacketsRecv |-> 0,
   PacketLoss |-> 0, AvgRtt |-> 0, Error |-> NIL]

\* A float64 holding n / 2^20 for an integer 0 <= n < 2^53: the division by a
\* power of two is exact, so the value is whole + frac / 2^20.
Float64MB(n) == [whole |-> n \div MiB, frac |-> n % MiB]

\* The float64 zero value.
FloatZero == [whole |-> 0, frac |-> 0]

\* a > b on these float64 values.
FloatGT(a, b) == \/ a.whole > b.whole
                 \/ a.whole = b.whole /\ a.frac > b.frac

\* FetchResult{URL: url}: every other field has Go's zero value (Redirects nil).
NewFetchResult(url) ==
  [URL |-> url, StatusCode |-> 0, BodyLength |-> 0, BodySize |-> FloatZero,
   Error |-> NIL, Redirects |-> <<>>]

\* ------------------------------------------------- fixture: the ICMP side
\* probing.NewPinger(hostname): the error it returns (resolution failure).
NewPinger(hostname) == IF hostname = "d.io" THEN "ErrResolve" ELSE NIL

\* pinger.Run(): the error it returns.
PingerRun(hostname) == IF hostname = "e.io" THEN "ErrRun" ELSE NIL

\* pinger.Statistics() after a successful Run.
Statistics(hostname) ==
  CASE hostname = "a.io" -> [PacketsSent |-> PingCount, PacketsRecv |-> PingCount,
                             PacketLoss |-> 0, AvgRtt |-> 20000000]
    [] hostname = "b.io" -> [PacketsSent |-> PingCount, PacketsRecv |-> 0,
                             PacketLoss |-> 100, AvgRtt |-> 0]
    [] hostname = "f.io" -> [PacketsSent |-> PingCount, PacketsRecv |-> PingCount,
                             PacketLoss |-> 0, AvgRtt |-> 20000000]
    [] OTHER             -> [PacketsSent |-> PingCount, PacketsRecv |-> PingCount,
                             PacketLoss |-> 0, AvgRtt |-> 50000000]

\* ------------------------------------------------- fixture: the HTTP side
\* An *http.Response: status, Location header ("" when absent), and its body:
\* the number of bytes io.ReadAll yields, and the error io.ReadAll returns.
Response(status, location, len, readErr) ==
  [StatusCode |-> status, Location |-> location, BodyLen |-> len, ReadErr |-> readErr]

\* The nil *http.Response that comes with an error.
NilResp == Response(0, "", 0, NIL)

\* http.Get(url): the pair (resp, err).
HttpGet(url) ==
  CASE url = UA -> [resp |-> Response(200, "", 5, NIL), err |-> NIL]
    [] url = UB -> [resp |-> Response(302, B1, 7, NIL), err |-> NIL]
    [] url = B1 -> [resp |-> Response(301, B2, 9, NIL), err |-> NIL]
    [] url = B2 -> [resp |-> Response(200, "", MiB + 5, NIL), err |-> NIL]
    [] url = UD -> [resp |-> Response(302, D1, 7, NIL), err |-> NIL]
    [] url = D1 -> [resp |-> Response(301, "", 7, NIL), err |-> NIL]
    [] url = UE -> [resp |-> Response(200, "", 11, "ErrRead"), err |-> NIL]
    [] url = UF -> [resp |-> Response(301, UF, 7, NIL), err |-> NIL]
    [] url = UG -> [resp |-> Response(302, G1, 7, NIL), err |-> NIL]
    [] url = G1 -> [resp |-> Response(404, "", MiB, NIL), err |-> NIL]
    [] OTHER    -> [resp |-> NilResp, err |-> "ErrGet"]

\* ------------------------------------------------------------------ state
VARIABLES
  urls,             \* main: the loaded host URLs, in file order
  mainPc,           \* main: where it is
  launched,         \* main: how many iterations of the current launch loop ran
  pingPc,           \* pingUrl goroutine i: where it is
  pingResult,       \* pingUrl goroutine i: its local result
  pingResults,      \* the buffered channel of PingResult
  allPingResults,   \* main: the collected (then sorted) slice
  pingSends,        \* history: number of sends goroutine i made on pingResults
  fetchPc,          \* fetchData goroutine i: where it is
  fetchResult,      \* fetchData goroutine i: its local result
  resp,             \* fetchData goroutine i: its local resp
  fetchResults,     \* the buffered channel of FetchResult
  allFetchResults,  \* main: the collected (then sorted) slice
  fetchSends,       \* history: number of sends goroutine i made on fetchResults
  gets,             \* history: the (url, resp, err) of every http.Get of goroutine i
  deferred,         \* fetchData goroutine i: whether defer resp.Body.Close() is registered
  openBodies,       \* the response bodies goroutine i obtained and has not closed
  delays,           \* how long the network operations of the units of host i last
  clock,            \* main: the time it is (time.Now())
  due,              \* unit i of the current phase: the time at which it has its result
  stamps,           \* for each outcome buffered in the current channel, when it was sent
  start,            \* main: start
  pingTime,         \* main: pingTime
  fetchTime         \* main: fetchTime

mainVars  == <<urls, mainPc, launched, allPingResults, allFetchResults>>
pingVars  == <<pingPc, pingResult, pingResults, pingSends>>
fetchVars == <<fetchPc, fetchResult, resp, fetchResults, fetchSends, gets, deferred, openBodies>>
timeVars  == <<delays, clock, due, stamps, start, pingTime, fetchTime>>
vars == <<mainVars, pingVars, fetchVars, timeVars>>

N == Len(urls)
Units == 1..N

\* Longer host lists explored besides: one host failing between two that
\* succeed (in the ping phase, in both phases, between two entries of the same
\* URL), and one list that takes every exit of both units.
Scenarios == { <<UA, UD, UC>>, <<UB, UE, UA>>, <<UA, UD, UA>>, <<UA, UC, UD, UE>> }

\* Every host list: the sequences of at most MaxHosts fixture URLs, and the scenarios.
HostLists == UNION {[1..n -> Sites] : n \in 0..MaxHosts} \cup Scenarios

\* The state main is in once the host list is loaded and start := time.Now()
\* is done, for a host list of lists and unit durations of at most maxDelay.
Start(lists, maxDelay) ==
  /\ urls \in lists
  /\ mainPc = "pingLaunch"
  /\ launched = 0
  /\ pingPc = [i \in 1..Len(urls) |-> "idle"]
  /\ pingResult = [i \in 1..Len(urls) |-> NewPingResult("")]
  /\ pingResults = <<>>
  /\ allPingResults = <<>>
  /\ pingSends = [i \in 1..Len(urls) |-> 0]
  /\ fetchPc = [i \in 1..Len(urls) |-> "idle"]
  /\ fetchResult = [i \in 1..Len(urls) |-> NewFetchResult("")]
  /\ resp = [i \in 1..Len(urls) |-> NilResp]
  /\ fetchResults = <<>>
  /\ allFetchResults = <<>>
  /\ fetchSends = [i \in 1..Len(urls) |-> 0]
  /\ gets = [i \in 1..Len(urls) |-> <<>>]
  /\ deferred = [i \in 1..Len(urls) |-> FALSE]
  /\ openBodies = [i \in 1..Len(urls) |-> 0]
  /\ delays \in [1..Len(urls) -> 0..maxDelay]
  /\ clock = 0
  /\ due = [i \in 1..Len(urls) |-> 0]
  /\ stamps = <<>>
  /\ start = 0
  /\ pingTime = 0
  /\ fetchTime = 0

\* Every host list; time is left out (every network operation lasts 0).
Init == Start(HostLists, 0)

\* The later of two times.
Later(a, b) == IF a > b THEN a ELSE b

\* ------------------------------------------------------------ main: ping
\* As MainLaunchPing, had the loop called pingUrl instead of starting a
\* goroutine: main goes on when the unit's network operation is over.
MainLaunchPing_Call ==
  /\ mainPc = "pingLaunch"
  /\ launched < N
  /\ pingPc' = [pingPc EXCEPT ![launched + 1] = "start"]
  /\ launched' = launched + 1
  /\ UNCHANGED <<urls, mainPc, allPingResults, allFetchResults,
                 pingResult, pingResults, pingSends, fetchVars>>
  /\ clock' = clock + delays[launched + 1]
  /\ due' = [due EXCEPT ![launched + 1] = clock']
  /\ UNCHANGED <<delays, stamps, start, pingTime, fetchTime>>

\* for _, url := range urls { go pingUrl(url.URL, pingResults) }: one iteration.
\* The go statement returns at once; the unit has its result delays[i] later.
MainLaunchPing ==
  /\ mainPc = "pingLaunch"
  /\ launched < N
  /\ pingPc' = [pingPc EXCEPT ![launched + 1] = "start"]
  /\ launched' = launched + 1
  /\ UNCHANGED <<urls, mainPc, allPingResults, allFetchResults,
                 pingResult, pingResults, pingSends, fetchVars>>
  /\ due' = [due EXCEPT ![launched + 1] = clock + delays[launched + 1]]
  /\ UNCHANGED <<delays, clock, stamps, start, pingTime, fetchTime>>

\* As MainPingLaunched, had main gone on to the fetch phase without collecting.
MainPingLaunched_NoWait ==
  /\ mainPc = "pingLaunch"
  /\ launched = N
  /\ mainPc' = "fetchLaunch"
  /\ launched' = 0
  /\ allPingResults' = <<>>
  /\ UNCHANGED <<urls, allFetchResults, pingVars, fetchVars>>
  /\ UNCHANGED timeVars

\* The launch loop ends; allPingResults := make([]PingResult, 0, len(urls)).
MainPingLaunched ==
  /\ mainPc = "pingLaunch"
  /\ launched = N
  /\ mainPc' = "pingCollect"
  /\ allPingResults' = <<>>
  /\ UNCHANGED <<urls, launched, allFetchResults, pingVars, fetchVars>>
  /\ UNCHANGED timeVars

\* result := <-pingResults; allPingResults = append(allPingResults, result)
MainCollectPing ==
  /\ mainPc = "pingCollect"
  /\ Len(allPingResults) < N
  /\ pingResults # <<>>
  /\ allPingResults' = Append(allPingResults, Head(pingResults))
  /\ pingResults' = Tail(pingResults)
  /\ UNCHANGED <<urls, mainPc, launched, allFetchResults,
                 pingPc, pingResult, pingSends, fetchVars>>
  /\ clock' = Later(clock, Head(stamps))
  /\ stamps' = Tail(stamps)
  /\ UNCHANGED <<delays, due, start, pingTime, fetchTime>>

\* The permutations of 1..n.
Perms(n) == {p \in [1..n -> 1..n] : \A i, j \in 1..n : p[i] = p[j] => i = j}

\* As SortSlice, had the errored outcomes been filtered out of the ranked list.
SortSlice_DropErrors(s, less) ==
  LET Keep(x) == x.Error = NIL
  IN {SelectSeq([k \in 1..Len(s) |-> s[p[k]]], Keep) :
        p \in {q \in Perms(Len(s)) :
                \A i, j \in 1..Len(s) : i < j => <<q[j], q[i]>> \notin less}}

\* What sort.Slice(s, less) may leave in s, less being given as the set of
\* the index pairs <<i, j>> of s at whose elements it answers true: sort.Slice
\* is not stable, so any rearrangement of s in which no element is less than
\* an earlier one.
SortSlice(s, less) ==
  {[k \in 1..Len(s) |-> s[p[k]]] :
     p \in {q \in Perms(Len(s)) :
             \A i, j \in 1..Len(s) : i < j => <<q[j], q[i]>> \notin less}}

\* As PingLess, without the two Error tests.
PingLess_NoErrorCheck(a, b) == a.AvgRtt > b.AvgRtt

\* The less function of the ping sort: a is allPingResults[i], b is allPingResults[j].
PingLess(a, b) ==
  IF a.Error # NIL THEN FALSE
  ELSE IF b.Error # NIL THEN TRUE
  ELSE a.AvgRtt > b.AvgRtt

\* As MainSortPing, had the collection loop run to i < len(urls) - 1.
MainSortPing_OffByOne ==
  /\ mainPc = "pingCollect"
  /\ Len(allPingResults) = N - 1
  /\ allPingResults' \in SortSlice(allPingResults,
       {ij \in (DOMAIN allPingResults) \X (DOMAIN allPingResults) :
          PingLess(allPingResults[ij[1]], allPingResults[ij[2]])})
  /\ mainPc' = "fetchLaunch"
  /\ launched' = 0
  /\ UNCHANGED <<urls, allFetchResults, pingVars, fetchVars>>
  /\ pingTime' = clock - start
  /\ start' = clock
  /\ UNCHANGED <<delays, clock, due, stamps, fetchTime>>

\* The collection loop ends; sort.Slice(allPingResults, ...); then the fetch
\* channel is made and the fetch launch loop is entered.
MainSortPing ==
  /\ mainPc = "pingCollect"
  /\ Len(allPingResults) = N
  /\ allPingResults' \in SortSlice(allPingResults,
       {ij \in (DOMAIN allPingResults) \X (DOMAIN allPingResults) :
          PingLess(allPingResults[ij[1]], allPingResults[ij[2]])})
  /\ mainPc' = "fetchLaunch"
  /\ launched' = 0
  /\ UNCHANGED <<urls, allFetchResults, pingVars, fetchVars>>
  /\ pingTime' = clock - start
  /\ start' = clock
  /\ UNCHANGED <<delays, clock, due, stamps, fetchTime>>

\* ----------------------------------------------------------- pingUrl
\* hostname := url with a leading "https://" or "http://" cut, then a leading "www." cut.
Hostname(url) ==
  LET h == IF Len(url) > 8 /\ SubSeq(url, 1, 8) = "https://"
             THEN SubSeq(url, 9, Len(url))
           ELSE IF Len(url) > 7 /\ SubSeq(url, 1, 7) = "http://"
             THEN SubSeq(url, 8, Len(url))
           ELSE url
  IN IF Len(h) > 4 /\ SubSeq(h, 1, 4) = "www." THEN SubSeq(h, 5, Len(h)) ELSE h

\* result := PingResult{URL: url}; result.Domain = hostname;
\* pinger, err := probing.NewPinger(hostname); on error: result.Error = err, send.
PingNewPinger(i) ==
  /\ pingPc[i] = "start"
  /\ LET hostname == Hostname(urls[i])
         result == [NewPingResult(urls[i]) EXCEPT !.Domain = hostname]
         err == NewPinger(hostname)
     IN IF err # NIL
          THEN /\ pingResult' = [pingResult EXCEPT ![i] = [result EXCEPT !.Error = err]]
               /\ pingPc' = [pingPc EXCEPT ![i] = "send"]
          ELSE /\ pingResult' = [pingResult EXCEPT ![i] = result]
               /\ pingPc' = [pingPc EXCEPT ![i] = "run"]
  /\ UNCHANGED <<mainVars, pingResults, pingSends, fetchVars>>
  /\ UNCHANGED timeVars

\* As PingRun, had the Run error path returned without sending.
PingRun_ReturnOnError(i) ==
  /\ pingPc[i] = "run"
  /\ LET err == PingerRun(pingResult[i].Domain)
         stats == Statistics(pingResult[i].Domain)
     IN /\ pingResult' = [pingResult EXCEPT ![i] =
             IF err # NIL
               THEN [@ EXCEPT !.Error = err]
               ELSE [@ EXCEPT !.PacketsSent = stats.PacketsSent,
                              !.PacketsRecv = stats.PacketsRecv,
                              !.PacketLoss = stats.PacketLoss,
                              !.AvgRtt = stats.AvgRtt]]
        /\ pingPc' = [pingPc EXCEPT ![i] = IF err # NIL THEN "done" ELSE "send"]
  /\ UNCHANGED <<mainVars, pingResults, pingSends, fetchVars>>
  /\ UNCHANGED timeVars

\* err = pinger.Run(); on error: result.Error = err, send;
\* else the four statistics are copied into result, send.
PingRun(i) ==
  /\ pingPc[i] = "run"
  /\ LET err == PingerRun(pingResult[i].Domain)
         stats == Statistics(pingResult[i].Domain)
     IN pingResult' = [pingResult EXCEPT ![i] =
          IF err # NIL
            THEN [@ EXCEPT !.Error = err]
            ELSE [@ EXCEPT !.PacketsSent = stats.PacketsSent,
                           !.PacketsRecv = stats.PacketsRecv,
                           !.PacketLoss = stats.PacketLoss,
                           !.AvgRtt = stats.AvgRtt]]
  /\ pingPc' = [pingPc EXCEPT ![i] = "send"]
  /\ UNCHANGED <<mainVars, pingResults, pingSends, fetchVars>>
  /\ UNCHANGED timeVars

\* As PingSend, had result been one variable shared by the goroutines: what
\* is sent is what any started goroutine wrote last.
PingSend_SharedResult(i) ==
  /\ pingPc[i] = "send"
  /\ Len(pingResults) < N
  /\ \E j \in Units :
       /\ pingPc[j] # "idle"
       /\ pingResults' = Append(pingResults, pingResult[j])
  /\ pingSends' = [pingSends EXCEPT ![i] = @ + 1]
  /\ pingPc' = [pingPc EXCEPT ![i] = "done"]
  /\ UNCHANGED <<mainVars, pingResult, fetchVars>>
  /\ stamps' = Append(stamps, due[i])
  /\ UNCHANGED <<delays, clock, due, start, pingTime, fetchTime>>

\* As PingSend, had the return after the send on an error path been left out:
\* the unit goes on to the send at the end of pingUrl.
PingSend_NoReturn(i) ==
  /\ pingPc[i] = "send"
  /\ Len(pingResults) < N
  /\ pingResults' = Append(pingResults, pingResult[i])
  /\ pingSends' = [pingSends EXCEPT ![i] = @ + 1]
  /\ pingPc' = [pingPc EXCEPT ![i] =
                  IF pingResult[i].Error # NIL /\ pingSends[i] = 0 THEN "send" ELSE "done"]
  /\ UNCHANGED <<mainVars, pingResult, fetchVars>>
  /\ stamps' = Append(stamps, due[i])
  /\ UNCHANGED <<delays, clock, due, start, pingTime, fetchTime>>

\* results <- result; return.  The channel was made with capacity len(urls):
\* the send waits while the buffer is full.
PingSend(i) ==
  /\ pingPc[i] = "send"
  /\ Len(pingResults) < N
  /\ pingResults' = Append(pingResults, pingResult[i])
  /\ pingSends' = [pingSends EXCEPT ![i] = @ + 1]
  /\ pingPc' = [pingPc EXCEPT ![i] = "done"]
  /\ UNCHANGED <<mainVars, pingResult, fetchVars>>
  /\ stamps' = Append(stamps, due[i])
  /\ UNCHANGED <<delays, clock, due, start, pingTime, fetchTime>>

\* ----------------------------------------------------------- main: fetch
\* for _, url := range urls { go fetchData(url.URL, fetchResults) }: one iteration.
MainLaunchFetch ==
  /\ mainPc = "fetchLaunch"
  /\ launched < N
  /\ fetchPc' = [fetchPc EXCEPT ![launched + 1] = "start"]
  /\ launched' = launched + 1
  /\ UNCHANGED <<urls, mainPc, allPingResults, allFetchResults, pingVars,
                 fetchResult, resp, fetchResults, fetchSends, gets, deferred, openBodies>>
  /\ due' = [due EXCEPT ![launched + 1] = clock + delays[launched + 1]]
  /\ UNCHANGED <<delays, clock, stamps, start, pingTime, fetchTime>>

\* The launch loop ends; allFetchResults := make([]FetchResult, 0, len(urls)).
MainFetchLaunched ==
  /\ mainPc = "fetchLaunch"
  /\ launched = N
  /\ mainPc' = "fetchCollect"
  /\ allFetchResults' = <<>>
  /\ UNCHANGED <<urls, launched, allPingResults, pingVars, fetchVars>>
  /\ UNCHANGED timeVars

\* result := <-fetchResults; allFetchResults = append(allFetchResults, result)
MainCollectFetch ==
  /\ mainPc = "fetchCollect"
  /\ Len(allFetchResults) < N
  /\ fetchResults # <<>>
  /\ allFetchResults' = Append(allFetchResults, Head(fetchResults))
  /\ fetchResults' = Tail(fetchResults)
  /\ UNCHANGED <<urls, mainPc, launched, allPingResults, pingVars,
                 fetchPc, fetchResult, resp, fetchSends, gets, deferred, openBodies>>
  /\ clock' = Later(clock, Head(stamps))
  /\ stamps' = Tail(stamps)
  /\ UNCHANGED <<delays, due, start, pingTime, fetchTime>>

\* As FetchLess, with < for >.
FetchLess_Ascending(a, b) ==
  IF a.Error # NIL THEN FALSE
  ELSE IF b.Error # NIL THEN TRUE
  ELSE FloatGT(b.BodySize, a.BodySize)

\* The less function of the fetch sort: a is allFetchResults[i], b is allFetchResults[j].
FetchLess(a, b) ==
  IF a.Error # NIL THEN FALSE
  ELSE IF b.Error # NIL THEN TRUE
  ELSE FloatGT(a.BodySize, b.BodySize)

\* As MainSortFetch, had the collection loop run to i < len(urls) - 1.
MainSortFetch_OffByOne ==
  /\ mainPc = "fetchCollect"
  /\ Len(allFetchResults) = N - 1
  /\ allFetchResults' \in SortSlice(allFetchResults,
       {ij \in (DOMAIN allFetchResults) \X (DOMAIN allFetchResults) :
          FetchLess(allFetchResults[ij[1]], allFetchResults[ij[2]])})
  /\ mainPc' = "display"
  /\ UNCHANGED <<urls, launched, allPingResults, pingVars, fetchVars>>
  /\ fetchTime' = clock - start
  /\ UNCHANGED <<delays, clock, due, stamps, start, pingTime>>

\* The collection loop ends; sort.Slice(allFetchResults, ...); the tables are printed.
MainSortFetch ==
  /\ mainPc = "fetchCollect"
  /\ Len(allFetchResults) = N
  /\ allFetchResults' \in SortSlice(allFetchResults,
       {ij \in (DOMAIN allFetchResults) \X (DOMAIN allFetchResults) :
          FetchLess(allFetchResults[ij[1]], allFetchResults[ij[2]])})
  /\ mainPc' = "display"
  /\ UNCHANGED <<urls, launched, allPingResults, pingVars, fetchVars>>
  /\ fetchTime' = clock - start
  /\ UNCHANGED <<delays, clock, due, stamps, start, pingTime>>

\* ----------------------------------------------------------- fetchData
\* As IsRedirect, testing 301 alone.
IsRedirect_Only301(r) == r.StatusCode = 301

\* resp.StatusCode == 301 || resp.StatusCode == 302
IsRedirect(r) == r.StatusCode = 301 \/ r.StatusCode = 302

\* As FetchGet, had the error path returned without sending.
FetchGet_ReturnOnError(i) ==
  /\ fetchPc[i] = "start"
  /\ LET result == NewFetchResult(urls[i])
         g == HttpGet(urls[i])
     IN /\ gets' = [gets EXCEPT ![i] = Append(@, [url |-> urls[i], resp |-> g.resp, err |-> g.err])]
        /\ resp' = [resp EXCEPT ![i] = g.resp]
        /\ IF g.err # NIL
             THEN /\ fetchResult' = [fetchResult EXCEPT ![i] = [result EXCEPT !.Error = g.err]]
                  /\ fetchPc' = [fetchPc EXCEPT ![i] = "done"]
                  /\ UNCHANGED openBodies
             ELSE /\ fetchResult' = [fetchResult EXCEPT ![i] = result]
                  /\ fetchPc' = [fetchPc EXCEPT ![i] = "loop"]
                  /\ openBodies' = [openBodies EXCEPT ![i] = @ + 1]
  /\ UNCHANGED <<mainVars, pingVars, fetchResults, fetchSends, deferred>>
  /\ UNCHANGED timeVars

\* result := FetchResult{URL: url}; resp, err := http.Get(url);
\* on error: result.Error = err, send.
FetchGet(i) ==
  /\ fetchPc[i] = "start"
  /\ LET result == NewFetchResult(urls[i])
         g == HttpGet(urls[i])
     IN /\ gets' = [gets EXCEPT ![i] = Append(@, [url |-> urls[i], resp |-> g.resp, err |-> g.err])]
        /\ resp' = [resp EXCEPT ![i] = g.resp]
        /\ IF g.err # NIL
             THEN /\ fetchResult' = [fetchResult EXCEPT ![i] = [result EXCEPT !.Error = g.err]]
                  /\ fetchPc' = [fetchPc EXCEPT ![i] = "send"]
                  /\ UNCHANGED openBodies
             ELSE /\ fetchResult' = [fetchResult EXCEPT ![i] = result]
                  /\ fetchPc' = [fetchPc EXCEPT ![i] = "loop"]
                  /\ openBodies' = [openBodies EXCEPT ![i] = @ + 1]
  /\ UNCHANGED <<mainVars, pingVars, fetchResults, fetchSends, deferred>>
  /\ UNCHANGED timeVars

\* As FetchRedirect, had the append come after the http.Get and read the new
\* resp's Location header.
FetchRedirect_AppendNext(i) ==
  /\ fetchPc[i] = "loop"
  /\ IsRedirect(resp[i])
  /\ Len(fetchResult[i].Redirects) < MaxHops
  /\ LET location == resp[i].Location
         g == HttpGet(location)
         result == [fetchResult[i] EXCEPT !.Redirects = Append(@, g.resp.Location)]
     IN /\ gets' = [gets EXCEPT ![i] = Append(@, [url |-> location, resp |-> g.resp, err |-> g.err])]
        /\ resp' = [resp EXCEPT ![i] = g.resp]
        /\ IF g.err # NIL
             THEN /\ fetchResult' = [fetchResult EXCEPT ![i] = [result EXCEPT !.Error = g.err]]
                  /\ fetchPc' = [fetchPc EXCEPT ![i] = "send"]
                  /\ UNCHANGED openBodies
             ELSE /\ fetchResult' = [fetchResult EXCEPT ![i] = result]
                  /\ UNCHANGED fetchPc
                  /\ openBodies' = [openBodies EXCEPT ![i] = @ + 1]
  /\ UNCHANGED <<mainVars, pingVars, fetchResults, fetchSends, deferred>>
  /\ UNCHANGED timeVars

\* As FetchRedirect, had the Location been appended only once its http.Get
\* had succeeded.
FetchRedirect_AppendOnSuccess(i) ==
  /\ fetchPc[i] = "loop"
  /\ IsRedirect(resp[i])
  /\ Len(fetchResult[i].Redirects) < MaxHops
  /\ LET location == resp[i].Location
         result == [fetchResult[i] EXCEPT !.Redirects = Append(@, location)]
         g == HttpGet(location)
     IN /\ gets' = [gets EXCEPT ![i] = Append(@, [url |-> location, resp |-> g.resp, err |-> g.err])]
        /\ resp' = [resp EXCEPT ![i] = g.resp]
        /\ IF g.err # NIL
             THEN /\ fetchResult' = [fetchResult EXCEPT ![i] = [@ EXCEPT !.Error = g.err]]
                  /\ fetchPc' = [fetchPc EXCEPT ![i] = "send"]
                  /\ UNCHANGED openBodies
             ELSE /\ fetchResult' = [fetchResult EXCEPT ![i] = result]
                  /\ UNCHANGED fetchPc
                  /\ openBodies' = [openBodies EXCEPT ![i] = @ + 1]
  /\ UNCHANGED <<mainVars, pingVars, fetchResults, fetchSends, deferred>>
  /\ UNCHANGED timeVars

\* As FetchRedirect, had the loop given up after two hops: the third finds
\* the limit reached, sets result.Error and sends.
FetchRedirect_HopLimit(i) ==
  /\ fetchPc[i] = "loop"
  /\ IsRedirect(resp[i])
  /\ Len(fetchResult[i].Redirects) < MaxHops
  /\ LET location == resp[i].Location
         result == [fetchResult[i] EXCEPT !.Redirects = Append(@, location)]
         g == HttpGet(location)
     IN IF Len(fetchResult[i].Redirects) >= 2
          THEN /\ fetchResult' = [fetchResult EXCEPT ![i] = [@ EXCEPT !.Error = "ErrTooManyRedirects"]]
               /\ fetchPc' = [fetchPc EXCEPT ![i] = "send"]
               /\ UNCHANGED <<gets, resp, openBodies>>
          ELSE /\ gets' = [gets EXCEPT ![i] = Append(@, [url |-> location, resp |-> g.resp, err |-> g.err])]
               /\ resp' = [resp EXCEPT ![i] = g.resp]
               /\ IF g.err # NIL
                    THEN /\ fetchResult' = [fetchResult EXCEPT ![i] = [result EXCEPT !.Error = g.err]]
                         /\ fetchPc' = [fetchPc EXCEPT ![i] = "send"]
                         /\ UNCHANGED openBodies
                    ELSE /\ fetchResult' = [fetchResult EXCEPT ![i] = result]
                         /\ UNCHANGED fetchPc
                         /\ openBodies' = [openBodies EXCEPT ![i] = @ + 1]
  /\ UNCHANGED <<mainVars, pingVars, fetchResults, fetchSends, deferred>>
  /\ UNCHANGED timeVars

\* As FetchRedirect, had the loop checked the Location header first and
\* returned an error for an empty one, without another http.Get.
FetchRedirect_CheckLocation(i) ==
  /\ fetchPc[i] = "loop"
  /\ IsRedirect(resp[i])
  /\ Len(fetchResult[i].Redirects) < MaxHops
  /\ LET location == resp[i].Location
         result == [fetchResult[i] EXCEPT !.Redirects = Append(@, location)]
         g == HttpGet(location)
     IN IF location = ""
          THEN /\ fetchResult' = [fetchResult EXCEPT ![i] = [@ EXCEPT !.Error = "ErrNoLocation"]]
               /\ fetchPc' = [fetchPc EXCEPT ![i] = "send"]
               /\ UNCHANGED <<gets, resp, openBodies>>
          ELSE /\ gets' = [gets EXCEPT ![i] = Append(@, [url |-> location, resp |-> g.resp, err |-> g.err])]
               /\ resp' = [resp EXCEPT ![i] = g.resp]
               /\ IF g.err # NIL
                    THEN /\ fetchResult' = [fetchResult EXCEPT ![i] = [result EXCEPT !.Error = g.err]]
                         /\ fetchPc' = [fetchPc EXCEPT ![i] = "send"]
                         /\ UNCHANGED openBodies
                    ELSE /\ fetchResult' = [fetchResult EXCEPT ![i] = result]
                         /\ UNCHANGED fetchPc
                         /\ openBodies' = [openBodies EXCEPT ![i] = @ + 1]
  /\ UNCHANGED <<mainVars, pingVars, fetchResults, fetchSends, deferred>>
  /\ UNCHANGED timeVars

\* One iteration of the redirect loop: the Location header is appended to
\* result.Redirects, then resp, err = http.Get(Location); on error:
\* result.Error = err, send.
FetchRedirect(i) ==
  /\ fetchPc[i] = "loop"
  /\ IsRedirect(resp[i])
  /\ Len(fetchResult[i].Redirects) < MaxHops
  /\ LET location == resp[i].Location
         result == [fetchResult[i] EXCEPT !.Redirects = Append(@, location)]
         g == HttpGet(location)
     IN /\ gets' = [gets EXCEPT ![i] = Append(@, [url |-> location, resp |-> g.resp, err |-> g.err])]
        /\ resp' = [resp EXCEPT ![i] = g.resp]
        /\ IF g.err # NIL
             THEN /\ fetchResult' = [fetchResult EXCEPT ![i] = [result EXCEPT !.Error = g.err]]
                  /\ fetchPc' = [fetchPc EXCEPT ![i] = "send"]
                  /\ UNCHANGED openBodies
             ELSE /\ fetchResult' = [fetchResult EXCEPT ![i] = result]
                  /\ UNCHANGED fetchPc
                  /\ openBodies' = [openBodies EXCEPT ![i] = @ + 1]
  /\ UNCHANGED <<mainVars, pingVars, fetchResults, fetchSends, deferred>>
  /\ UNCHANGED timeVars

\* As FetchReadAll, had result.StatusCode been set before the body is read.
FetchReadAll_StatusFirst(i) ==
  /\ fetchPc[i] = "loop"
  /\ ~IsRedirect(resp[i])
  /\ deferred' = [deferred EXCEPT ![i] = TRUE]
  /\ fetchResult' = [fetchResult EXCEPT ![i] =
       IF resp[i].ReadErr # NIL
         THEN [@ EXCEPT !.StatusCode = resp[i].StatusCode,
                        !.Error = resp[i].ReadErr]
         ELSE [@ EXCEPT !.StatusCode = resp[i].StatusCode,
                        !.BodyLength = resp[i].BodyLen,
                        !.BodySize = Float64MB(resp[i].BodyLen)]]
  /\ fetchPc' = [fetchPc EXCEPT ![i] = "send"]
  /\ UNCHANGED <<mainVars, pingVars, resp, fetchResults, fetchSends, gets, openBodies>>
  /\ UNCHANGED timeVars

\* The loop ends on a response that is no 301/302: defer resp.Body.Close();
\* body, err := io.ReadAll(resp.Body); on error: result.Error = err, send;
\* else StatusCode, BodyLength and BodySize are set, send.
FetchReadAll(i) ==
  /\ fetchPc[i] = "loop"
  /\ ~IsRedirect(resp[i])
  /\ deferred' = [deferred EXCEPT ![i] = TRUE]
  /\ fetchResult' = [fetchResult EXCEPT ![i] =
       IF resp[i].ReadErr # NIL
         THEN [@ EXCEPT !.Error = resp[i].ReadErr]
         ELSE [@ EXCEPT !.StatusCode = resp[i].StatusCode,
                        !.BodyLength = resp[i].BodyLen,
                        !.BodySize = Float64MB(resp[i].BodyLen)]]
  /\ fetchPc' = [fetchPc EXCEPT ![i] = "send"]
  /\ UNCHANGED <<mainVars, pingVars, resp, fetchResults, fetchSends, gets, openBodies>>
  /\ UNCHANGED timeVars

\* results <- result; return (the deferred resp.Body.Close() runs).  The
\* channel was made with capacity len(urls): the send waits while it is full.
FetchSend(i) ==
  /\ fetchPc[i] = "send"
  /\ Len(fetchResults) < N
  /\ fetchResults' = Append(fetchResults, fetchResult[i])
  /\ fetchSends' = [fetchSends EXCEPT ![i] = @ + 1]
  /\ openBodies' = [openBodies EXCEPT ![i] = IF deferred[i] THEN @ - 1 ELSE @]
  /\ fetchPc' = [fetchPc EXCEPT ![i] = "done"]
  /\ UNCHANGED <<mainVars, pingVars, fetchResult, resp, gets, deferred>>
  /\ stamps' = Append(stamps, due[i])
  /\ UNCHANGED <<delays, clock, due, start, pingTime, fetchTime>>

\* ------------------------------------------------------- the specification
Next ==
  \/ MainLaunchPing
  \/ MainPingLaunched
  \/ MainCollectPing
  \/ MainSortPing
  \/ MainLaunchFetch
  \/ MainFetchLaunched
  \/ MainCollectFetch
  \/ MainSortFetch
  \/ \E i \in Units : PingNewPinger(i)
  \/ \E i \in Units : PingRun(i)
  \/ \E i \in Units : PingSend(i)
  \/ \E i \in Units : FetchGet(i)
  \/ \E i \in Units : FetchRedirect(i)
  \/ \E i \in Units : FetchReadAll(i)
  \/ \E i \in Units : FetchSend(i)

Spec == Init /\ [][Next]_vars

\* The Go scheduler runs every goroutine that can take a step.  The weakest
\* consequence is assumed: while some goroutine can take a step, one is taken.
FairSpec == Spec /\ WF_vars(Next)

\* ================================================================ claims
\* The bag of the elements of a sequence.
SeqToBag(s) ==
  [x \in {s[k] : k \in DOMAIN s} |-> Cardinality({k \in DOMAIN s : s[k] = x})]

\* The URL of every outcome of a sequence, in order.
URLsOf(s) == [k \in DOMAIN s |-> s[k].URL]

\* main has left the ping collection loop / the fetch collection loop.
PingCollected ==
  \/ mainPc = "pingCollect" /\ Len(allPingResults) = N
  \/ mainPc \in {"fetchLaunch", "fetchCollect", "display"}
FetchCollected ==
  \/ mainPc = "fetchCollect" /\ Len(allFetchResults) = N
  \/ mainPc = "display"

\* 2^20 times the value of a float64 of the model.
FloatScaled(f) == f.whole * MiB + f.frac

\* main has sorted the ping results / the fetch results.
PingRanked == mainPc \in {"fetchLaunch", "fetchCollect", "display"}
FetchRanked == mainPc = "display"

\* C1: once a phase's collection loop has finished, the collected list holds
\* exactly len(urls) outcomes and the bag of their URLs is the bag of the
\* configured URLs, in the ping phase and in the fetch phase.
C1_OneOutcomePerHost ==
  /\ PingCollected =>
       /\ Len(allPingResults) = Len(urls)
       /\ SeqToBag(URLsOf(allPingResults)) = SeqToBag(urls)
  /\ FetchCollected =>
       /\ Len(allFetchResults) = Len(urls)
       /\ SeqToBag(URLsOf(allFetchResults)) = SeqToBag(urls)

\* Both phases collected for a list with a duplicate URL, with a failed and a
\* successful unit in each phase.
C1_Witness ==
  /\ FetchCollected
  /\ \E i, j \in Units : i # j /\ urls[i] = urls[j]
  /\ \E k, l \in 1..Len(allPingResults) :
       allPingResults[k].Error # NIL /\ allPingResults[l].Error = NIL
  /\ \E k, l \in 1..Len(allFetchResults) :
       allFetchResults[k].Error # NIL /\ allFetchResults[l].Error = NIL

\* C2: no fetchData goroutine is launched before the ping collection loop has
\* received all len(urls) ping outcomes.
C2_PhasesSequential ==
  (\E i \in Units : fetchPc[i] # "idle") =>
     /\ Len(allPingResults) = N
     /\ \A i \in Units : pingPc[i] = "done"
     /\ pingResults = <<>>

\* A fetch unit is running for a list of at least two hosts.
C2_Witness == N >= 2 /\ \E i \in Units : fetchPc[i] \in {"start", "loop"}

\* C3: in the ranked ping list every outcome with an error comes after every
\* outcome without one, and of two error-free outcomes the one with the
\* larger AvgRtt comes first.
C3_PingRanking ==
  PingRanked =>
    \A i, j \in 1..Len(allPingResults) :
      LET a == allPingResults[i]
          b == allPingResults[j]
      IN /\ (a.Error # NIL /\ b.Error = NIL) => j < i
         /\ (a.Error = NIL /\ b.Error = NIL /\ a.AvgRtt > b.AvgRtt) => i < j

\* A ranked ping list with an errored outcome and two error-free outcomes of
\* different AvgRtt.
C3_Witness ==
  /\ PingRanked
  /\ \E i, j, k \in 1..Len(allPingResults) :
       /\ allPingResults[i].Error = NIL
       /\ allPingResults[j].Error = NIL
       /\ allPingResults[i].AvgRtt > allPingResults[j].AvgRtt
       /\ allPingResults[k].Error # NIL

\* C4: in the ranked fetch list every outcome with an error comes after every
\* outcome without one, and of two error-free outcomes the one with the
\* larger BodySize comes first.
C4_FetchRanking ==
  FetchRanked =>
    \A i, j \in 1..Len(allFetchResults) :
      LET a == allFetchResults[i]
          b == allFetchResults[j]
      IN /\ (a.Error # NIL /\ b.Error = NIL) => j < i
         /\ (a.Error = NIL /\ b.Error = NIL
               /\ FloatScaled(a.BodySize) > FloatScaled(b.BodySize)) => i < j

\* A ranked fetch list with an errored outcome and two error-free outcomes of
\* different body size.
C4_Witness ==
  /\ FetchRanked
  /\ \E i, j, k \in 1..Len(allFetchResults) :
       /\ allFetchResults[i].Error = NIL
       /\ allFetchResults[j].Error = NIL
       /\ FloatScaled(allFetchResults[i].BodySize) > FloatScaled(allFetchResults[j].BodySize)
       /\ allFetchResults[k].Error # NIL

\* The results of the goroutines that have returned.
PingDone == {i \in Units : pingPc[i] = "done"}
FetchDone == {i \in Units : fetchPc[i] = "done"}

\* Every outcome ever put on a channel: those still buffered, then those collected.
PingSent == pingResults \o allPingResults
FetchSent == fetchResults \o allFetchResults

\* The bag of result[i] for i in a set of goroutines.
BagOfResults(result, S) ==
  [x \in {result[i] : i \in S} |-> Cardinality({i \in S : result[i] = x})]

\* The last http.Get of fetch goroutine i.
LastGet(i) == gets[i][Len(gets[i])]

\* The Location headers of the responses fetch goroutine i went on from.
Followed(i) == [k \in 1..(Len(gets[i]) - 1) |-> gets[i][k].resp.Location]

\* The failure pingUrl goroutine i met, NIL when it met none.
PingFailure(i) ==
  IF NewPinger(pingResult[i].Domain) # NIL THEN NewPinger(pingResult[i].Domain)
  ELSE PingerRun(pingResult[i].Domain)

\* The failure fetchData goroutine i met, NIL when it met none.
FetchFailure(i) ==
  IF LastGet(i).err # NIL THEN LastGet(i).err ELSE LastGet(i).resp.ReadErr

\* C5: a unit sends nothing before it returns and exactly one outcome by the
\* time it has returned, on every exit path of pingUrl and of fetchData; what
\* the channel was given is the unit's result, and the failure the unit met
\* (none on the success path) is that result's Error.
C5_ExactlyOneSend ==
  /\ \A i \in Units :
       /\ pingSends[i] = (IF pingPc[i] = "done" THEN 1 ELSE 0)
       /\ fetchSends[i] = (IF fetchPc[i] = "done" THEN 1 ELSE 0)
       /\ pingPc[i] = "done" => pingResult[i].Error = PingFailure(i)
       /\ fetchPc[i] = "done" => fetchResult[i].Error = FetchFailure(i)
  /\ SeqToBag(PingSent) = BagOfResults(pingResult, PingDone)
  /\ SeqToBag(FetchSent) = BagOfResults(fetchResult, FetchDone)

\* All units of both phases have returned, and among them one took each exit:
\* NewPinger failed, Run failed, ping succeeded; the first http.Get failed, a
\* redirect hop's http.Get failed, io.ReadAll failed, fetch succeeded.
C5_Witness ==
  /\ \A i \in Units : pingPc[i] = "done" /\ fetchPc[i] = "done"
  /\ \E i \in Units : NewPinger(pingResult[i].Domain) # NIL
  /\ \E i \in Units : NewPinger(pingResult[i].Domain) = NIL /\ pingResult[i].Error # NIL
  /\ \E i \in Units : pingResult[i].Error = NIL
  /\ \E i \in Units : Len(gets[i]) = 1 /\ LastGet(i).err # NIL
  /\ \E i \in Units : Len(gets[i]) > 1 /\ LastGet(i).err # NIL
  /\ \E i \in Units : LastGet(i).err = NIL /\ LastGet(i).resp.ReadErr # NIL
  /\ \E i \in Units : fetchResult[i].Error = NIL

\* What the probe of a host yields by itself: the error it fails with (NIL
\* when it succeeds) and the statistics <<sent, received, loss, average rtt>>
\* it measures.
OwnProbe(url) ==
  CASE url = UA -> [Domain |-> "a.io", Error |-> NIL, Stats |-> <<3, 3, 0, 20000000>>]
    [] url = UB -> [Domain |-> "b.io", Error |-> NIL, Stats |-> <<3, 0, 100, 0>>]
    [] url = UC -> [Domain |-> "c.io", Error |-> NIL, Stats |-> <<3, 3, 0, 50000000>>]
    [] url = UD -> [Domain |-> "d.io", Error |-> "ErrResolve", Stats |-> <<0, 0, 0, 0>>]
    [] url = UE -> [Domain |-> "e.io", Error |-> "ErrRun", Stats |-> <<0, 0, 0, 0>>]
    [] url = UF -> [Domain |-> "f.io", Error |-> NIL, Stats |-> <<3, 3, 0, 20000000>>]
    [] url = UG -> [Domain |-> "g.io", Error |-> NIL, Stats |-> <<3, 3, 0, 50000000>>]

\* What the fetch of a host yields by itself: the error it fails with and the
\* <<status, body bytes>> of the response it ends on.
OwnFetch(url) ==
  CASE url = UA -> [Error |-> NIL, Final |-> <<200, 5>>]
    [] url = UB -> [Error |-> NIL, Final |-> <<200, 1048581>>]
    [] url = UC -> [Error |-> "ErrGet", Final |-> <<0, 0>>]
    [] url = UD -> [Error |-> "ErrGet", Final |-> <<0, 0>>]
    [] url = UE -> [Error |-> "ErrRead", Final |-> <<0, 0>>]
    [] url = UG -> [Error |-> NIL, Final |-> <<404, 1048576>>]

\* The <<URL, Error, stats>> of the ping outcomes / fetch outcomes of a sequence.
PingSummary(s) ==
  [k \in DOMAIN s |->
     <<s[k].URL, s[k].Domain, s[k].Error,
       <<s[k].PacketsSent, s[k].PacketsRecv, s[k].PacketLoss, s[k].AvgRtt>> >>]
FetchSummary(s) ==
  [k \in DOMAIN s |->
     <<s[k].URL, s[k].Error, <<s[k].StatusCode, s[k].BodyLength>> >>]

\* C6: whatever the other units do and however the units interleave, the
\* collected outcomes are, host by host, what each host's own probe (fetch)
\* yields: a nil error and its own statistics where it succeeds, its own
\* error and zero statistics where it fails, and all len(urls) are collected.
C6_FailureIsolation ==
  /\ PingCollected =>
       SeqToBag(PingSummary(allPingResults)) =
         SeqToBag([i \in 1..Len(urls) |->
                    <<urls[i], OwnProbe(urls[i]).Domain, OwnProbe(urls[i]).Error,
                      OwnProbe(urls[i]).Stats>>])
  /\ FetchCollected =>
       SeqToBag(FetchSummary(allFetchResults)) =
         SeqToBag([i \in 1..Len(urls) |->
                    <<urls[i], OwnFetch(urls[i]).Error, OwnFetch(urls[i]).Final>>])

\* The ping outcomes of three hosts are collected, the probe of the second
\* having failed at construction and those of the first and third succeeded.
C6_Witness ==
  /\ PingCollected
  /\ Len(urls) = 3
  /\ OwnProbe(urls[1]).Error = NIL
  /\ OwnProbe(urls[2]).Error = "ErrResolve"
  /\ OwnProbe(urls[3]).Error = NIL
  /\ \E k \in 1..3 : allPingResults[k].Error = "ErrResolve"

C8_FinalStatusOnly ==
  /\ \A k \in 1..Len(FetchSent) : FetchSent[k].StatusCode \notin {301, 302}
  /\ \A i \in Units :
       (fetchPc[i] = "done" /\ fetchResult[i].Error = NIL) =>
          fetchResult[i].StatusCode = LastGet(i).resp.StatusCode

\* An error-free outcome of a fetch that followed a redirect and ended on a
\* 404 has been sent.
C8_Witness ==
  \E k \in 1..Len(FetchSent) :
    /\ FetchSent[k].Error = NIL
    /\ FetchSent[k].Redirects # <<>>
    /\ FetchSent[k].StatusCode = 404

\* C9: once an http.Get of a fetch unit has failed, at the first request or
\* at a redirect hop, the unit issues no further request, and its outcome
\* has that failure as Error, the Locations followed up to and including the
\* failed hop as Redirects, and zero StatusCode, BodyLength and BodySize.
C9_GetFailure ==
  \A i \in Units :
    /\ \A k \in 1..(Len(gets[i]) - 1) : gets[i][k].err = NIL
    /\ (Len(gets[i]) > 0 /\ LastGet(i).err # NIL) =>
         /\ fetchPc[i] \in {"send", "done"}
         /\ fetchResult[i].Error = LastGet(i).err
         /\ fetchResult[i].Redirects = Followed(i)
         /\ fetchResult[i].StatusCode = 0
         /\ fetchResult[i].BodyLength = 0
         /\ fetchResult[i].BodySize = FloatZero
         /\ fetchPc[i] = "done" =>
              \E k \in 1..Len(FetchSent) : FetchSent[k] = fetchResult[i]

\* A fetch has returned whose second redirect hop failed, and another whose
\* first request failed.
C9_Witness ==
  /\ \E i \in Units :
       /\ fetchPc[i] = "done"
       /\ Len(gets[i]) = 3
       /\ LastGet(i).err # NIL
       /\ Len(fetchResult[i].Redirects) = 2
  /\ \E i \in Units :
       /\ fetchPc[i] = "done"
       /\ Len(gets[i]) = 1
       /\ LastGet(i).err # NIL

\* C10: every outcome put on a channel that has an Error has zero
\* measurements: PacketsSent, PacketsRecv, PacketLoss and AvgRtt of a
\* PingResult, StatusCode, BodyLength and BodySize of a FetchResult.
C10_ErrorMeansZero ==
  /\ \A k \in 1..Len(PingSent) :
       PingSent[k].Error # NIL =>
         /\ PingSent[k].PacketsSent = 0
         /\ PingSent[k].PacketsRecv = 0
         /\ PingSent[k].PacketLoss = 0
         /\ PingSent[k].AvgRtt = 0
  /\ \A k \in 1..Len(FetchSent) :
       FetchSent[k].Error # NIL =>
         /\ FetchSent[k].StatusCode = 0
         /\ FetchSent[k].BodyLength = 0
         /\ FetchSent[k].BodySize = FloatZero

\* The channels were given a ping outcome of a failed Run and a fetch outcome
\* of a body whose read failed after a 200 response.
C10_Witness ==
  /\ \E k \in 1..Len(PingSent) : PingSent[k].Error = "ErrRun"
  /\ \E i \in Units :
       /\ fetchPc[i] = "done"
       /\ LastGet(i).err = NIL
       /\ LastGet(i).resp.StatusCode = 200
       /\ LastGet(i).resp.ReadErr # NIL
       /\ \E k \in 1..Len(FetchSent) : FetchSent[k] = fetchResult[i]


\* C11: every response body a fetch unit obtained (the first response, each
\* 301/302 response it went on from, the final response) is closed by the
\* time the unit has returned.
C11_BodiesClosed ==
  \A i \in Units : fetchPc[i] = "done" => openBodies[i] = 0

\* C12: a phase's results are ranked (and anything after it is reached) only
\* once every unit of the phase has sent and all len(urls) outcomes are
\* received; while a unit has not sent and the outcomes the others sent are
\* all received, main can neither receive nor go on to the ranking.
C12_NoPartialCollection ==
  /\ PingRanked =>
       /\ Len(allPingResults) = N
       /\ \A i \in Units : pingSends[i] = 1
  /\ FetchRanked =>
       /\ Len(allFetchResults) = N
       /\ \A i \in Units : fetchSends[i] = 1
  /\ (mainPc = "pingCollect" /\ pingResults = <<>>
        /\ \E i \in Units : pingSends[i] = 0) =>
       ~ENABLED MainCollectPing /\ ~ENABLED MainSortPing
  /\ (mainPc = "fetchCollect" /\ fetchResults = <<>>
        /\ \E i \in Units : fetchSends[i] = 0) =>
       ~ENABLED MainCollectFetch /\ ~ENABLED MainSortFetch

\* The fetch collection has received the outcomes of all units but one, and
\* that one is still following redirects.
C12_Witness ==
  /\ mainPc = "fetchCollect"
  /\ N >= 2
  /\ Len(allFetchResults) = N - 1
  /\ fetchResults = <<>>
  /\ \E i \in Units : fetchPc[i] = "loop" /\ Len(fetchResult[i].Redirects) >= 2

\* A fetch unit is on a 301/302 response with the explored chain length used
\* up: its network operation has not finished within the model.
HopsExhausted ==
  \E i \in Units :
    /\ fetchPc[i] = "loop"
    /\ IsRedirect(resp[i])
    /\ Len(fetchResult[i].Redirects) >= MaxHops

\* Both phases are over, each with len(urls) outcomes.
AllCollected ==
  /\ mainPc = "display"
  /\ Len(allPingResults) = N
  /\ Len(allFetchResults) = N

\* C13: under fair scheduling the ping collection always completes with
\* len(urls) outcomes, and when every fetch unit's network operation finishes
\* (no unit is left following redirects), so does the fetch collection and
\* main reaches the end of the fetch phase.
C13_CollectorLiveness ==
  /\ <>(PingCollected /\ Len(allPingResults) = N)
  /\ ([]~HopsExhausted) => <>AllCollected

\* Both phases are over for three hosts or more, with failed and successful
\* units in each.
C13_Witness ==
  /\ AllCollected
  /\ N >= 3
  /\ \E k, l \in 1..N : allPingResults[k].Error # NIL /\ allPingResults[l].Error = NIL
  /\ \E k, l \in 1..N : allFetchResults[k].Error # NIL /\ allFetchResults[l].Error = NIL

\* main's step from the ping collection to the ranked ping list, and from the
\* fetch collection to the ranked fetch list.
PingSortStep == mainPc = "pingCollect" /\ mainPc' = "fetchLaunch"
FetchSortStep == mainPc = "fetchCollect" /\ mainPc' = "display"

\* C14: the ranking is stable: two different error-free outcomes of equal
\* metric (AvgRtt for the ping ranking, BodySize for the fetch ranking) stand
\* in the ranked list in the order in which they were collected.
C14_RankingStable ==
  [][/\ PingSortStep =>
          \A i, j \in 1..Len(allPingResults) :
            (/\ i < j
             /\ allPingResults[i] # allPingResults[j]
             /\ allPingResults[i].Error = NIL
             /\ allPingResults[j].Error = NIL
             /\ allPingResults[i].AvgRtt = allPingResults[j].AvgRtt) =>
               \E k, l \in 1..Len(allPingResults') :
                 /\ k < l
                 /\ allPingResults'[k] = allPingResults[i]
                 /\ allPingResults'[l] = allPingResults[j]
     /\ FetchSortStep =>
          \A i, j \in 1..Len(allFetchResults) :
            (/\ i < j
             /\ allFetchResults[i] # allFetchResults[j]
             /\ allFetchResults[i].Error = NIL
             /\ allFetchResults[j].Error = NIL
             /\ allFetchResults[i].BodySize = allFetchResults[j].BodySize) =>
               \E k, l \in 1..Len(allFetchResults') :
                 /\ k < l
                 /\ allFetchResults'[k] = allFetchResults[i]
                 /\ allFetchResults'[l] = allFetchResults[j]]_vars

\* C15: each ranking step leaves a rearrangement of the collected list: the
\* same outcomes, each as many times, none altered, so the failed units'
\* outcomes are still there and the ranked list holds one outcome per host.
C15_RankingPermutes ==
  [][/\ PingSortStep =>
          /\ SeqToBag(allPingResults') = SeqToBag(allPingResults)
          /\ Len(allPingResults') = Len(urls)
     /\ FetchSortStep =>
          /\ SeqToBag(allFetchResults') = SeqToBag(allFetchResults)
          /\ Len(allFetchResults') = Len(urls)]_vars

\* Both lists are ranked for three hosts or more, each ending with a failed
\* unit's outcome after an error-free one.
C15_Witness ==
  /\ FetchRanked
  /\ N >= 3
  /\ allPingResults[N].Error # NIL /\ allPingResults[1].Error = NIL
  /\ allFetchResults[N].Error # NIL /\ allFetchResults[1].Error = NIL


\* ------------------------------------------------------------------ C16
\* The inputs of the hostname derivation: every scheme-like beginning, followed
\* by every www-like beginning, followed by every remainder; and the fixture
\* URLs.  The remainder may be empty: the input is then a bare prefix.
DomainSchemes == {"", "https://", "http://", "https:/", "ftp://"}
DomainLabels  == {"", "www.", "www"}
DomainRests   == {"", "a.io", "www.a", "http://a"}
DomainInputs ==
  {s \o w \o r : <<s, w, r>> \in DomainSchemes \X DomainLabels \X DomainRests}
    \cup Sites

\* main, run on a host list of one host whose URL is any of DomainInputs.
InitDomain == Start({<<u>> : u \in DomainInputs}, 0)
SpecDomain == InitDomain /\ [][Next]_vars

\* Whether s begins with the literal p, and s without its first Len(p) characters.
HasPrefix(s, p) == Len(s) >= Len(p) /\ SubSeq(s, 1, Len(p)) = p
TrimLeft(s, p)  == IF Len(s) = Len(p) THEN "" ELSE SubSeq(s, Len(p) + 1, Len(s))

\* url with a leading https://, or else a leading http://, removed when
\* present, and then a leading www. removed when present.
LiteralStrip(url) ==
  LET h == IF HasPrefix(url, "https://") THEN TrimLeft(url, "https://")
           ELSE IF HasPrefix(url, "http://") THEN TrimLeft(url, "http://")
           ELSE url
  IN IF HasPrefix(h, "www.") THEN TrimLeft(h, "www.") ELSE h

\* C16: for every input url, the Domain pingUrl derives is url with a literal
\* leading https:// or else http:// removed when present, and then a literal
\* leading www. removed when present.
C16_DomainIsLiteralStrip ==
  \A i \in Units :
    pingPc[i] \notin {"idle", "start"} => pingResult[i].Domain = LiteralStrip(urls[i])

\* The part of C16 the code satisfies: the same, for every input that is longer
\* than each prefix it begins with.
C16_LongerThanPrefix ==
  \A i \in Units :
    (/\ pingPc[i] \notin {"idle", "start"}
     /\ urls[i] \notin {"https://", "http://"}
     /\ Hostname(urls[i]) # "www.")
      => pingResult[i].Domain = LiteralStrip(urls[i])

\* ------------------------------------------------------------------ C17
\* main, run where time passes: the host lists of at most MaxHosts hosts over
\* two fixture URLs, each unit's network operation lasting 0..MaxDelay ticks.
\* Computation takes no time; main's clock moves only when a receive has to
\* wait for the outcome it receives.
TimedLists == UNION {[1..n -> {UA, UD}] : n \in 0..MaxHosts}
InitTimed == Start(TimedLists, MaxDelay)
SpecTimed == InitTimed /\ [][Next]_vars

\* d[1] + ... + d[n], and the largest of d[1] .. d[n] (0 when n = 0).
RECURSIVE SumOf(_, _)
SumOf(d, n) == IF n = 0 THEN 0 ELSE SumOf(d, n - 1) + d[n]
RECURSIVE MaxOf(_, _)
MaxOf(d, n) == IF n = 0 THEN 0 ELSE Later(MaxOf(d, n - 1), d[n])

\* C17: within a phase all N units are started before the collector waits for
\* an outcome, every started unit has its outcome its own delay after the
\* phase began, whatever the other units do, and the phase has lasted
\* max(d_i) when its collection is over.
C17_PhaseTakesSlowest ==
  /\ mainPc = "pingCollect" => \A i \in Units : pingPc[i] # "idle"
  /\ mainPc = "fetchCollect" => \A i \in Units : fetchPc[i] # "idle"
  /\ mainPc \in {"pingLaunch", "pingCollect"} =>
       \A i \in Units : pingPc[i] # "idle" => due[i] = start + delays[i]
  /\ mainPc \in {"fetchLaunch", "fetchCollect"} =>
       \A i \in Units : fetchPc[i] # "idle" => due[i] = start + delays[i]
  /\ (mainPc = "pingCollect" /\ PingCollected) => clock - start = MaxOf(delays, N)
  /\ PingRanked => pingTime = MaxOf(delays, N)
  /\ FetchCollected => clock - start = MaxOf(delays, N)
  /\ FetchRanked => fetchTime = MaxOf(delays, N)

\* Both phases are over on two hosts whose units last 1 and 2 ticks: each
\* phase lasted 2 ticks and not 3.
C17_Witness ==
  /\ FetchRanked
  /\ N = 2
  /\ delays = <<1, 2>>
  /\ pingTime = 2 /\ fetchTime = 2
  /\ SumOf(delays, N) = 3

\* ------------------------------------------------------------------ C18
\* Every http.Get of fetch goroutine i so far was answered, with a 301 or a 302.
OnlyRedirects(i) ==
  /\ gets[i] # <<>>
  /\ \A k \in DOMAIN gets[i] : gets[i][k].err = NIL /\ IsRedirect(gets[i][k].resp)

C19_SendNeverBlocks ==
  /\ Len(pingResults) <= N /\ Len(fetchResults) <= N
  /\ Len(PingSent) <= N /\ Len(FetchSent) <= N
  /\ \A i \in Units : pingSends[i] <= 1 /\ fetchSends[i] <= 1
  /\ \A i \in Units : pingPc[i] = "send" => Len(pingResults) < N /\ ENABLED PingSend(i)
  /\ \A i \in Units : fetchPc[i] = "send" => Len(fetchResults) < N /\ ENABLED FetchSend(i)
  /\ PingCollected => pingResults = <<>>
  /\ FetchCollected => fetchResults = <<>>

\* The ping channel is drained, and every fetch unit has sent and returned
\* before main received any fetch outcome: the fetch channel is full.
C19_Witness ==
  /\ N >= 2
  /\ pingResults = <<>> /\ Len(allPingResults) = N
  /\ mainPc = "fetchCollect"
  /\ allFetchResults = <<>>
  /\ Len(fetchResults) = N
  /\ \A i \in Units : fetchPc[i] = "done"

\* ------------------------------------------------------------------ C20
\* Fetch goroutine i got a 301 or 302 that carries no Location header and went on from it.
FollowedNoLocation(i) ==
  \E k \in 1..(Len(gets[i]) - 1) :
    /\ gets[i][k].err = NIL
    /\ IsRedirect(gets[i][k].resp)
    /\ gets[i][k].resp.Location = ""

\* Fetch goroutine i got a 301 or 302 that carries no Location header.
GotNoLocation(i) ==
  \E k \in DOMAIN gets[i] :
    /\ gets[i][k].err = NIL
    /\ IsRedirect(gets[i][k].resp)
    /\ gets[i][k].resp.Location = ""

\* C20: a 301/302 without a Location header makes the unit neither loop nor
\* succeed.  The empty string is appended to Redirects and the next GET goes
\* to the empty URL; that GET fails, it is the unit's last, and the outcome the
\* unit sends has that error, Redirects ending in the empty string, and zero
\* StatusCode, BodyLength and BodySize.
C20_RedirectWithoutLocation ==
  \A i \in Units :
    /\ (GotNoLocation(i) /\ ~FollowedNoLocation(i)) =>
         /\ fetchPc[i] = "loop" /\ resp[i] = LastGet(i).resp
         /\ fetchResult[i].Error = NIL /\ fetchSends[i] = 0
         /\ Len(fetchResult[i].Redirects) < MaxHops => ENABLED FetchRedirect(i)
    /\ FollowedNoLocation(i) =>
         LET r == fetchResult[i]
         IN /\ LastGet(i).url = "" /\ LastGet(i).err # NIL
            /\ Len(gets[i]) >= 2
            /\ gets[i][Len(gets[i]) - 1].resp.Location = ""
            /\ fetchPc[i] \in {"send", "done"}
            /\ r.Error = LastGet(i).err
            /\ r.Redirects # <<>> /\ r.Redirects[Len(r.Redirects)] = ""
            /\ r.Redirects = Followed(i)
            /\ r.StatusCode = 0 /\ r.BodyLength = 0 /\ r.BodySize = FloatZero
            /\ fetchPc[i] = "done" =>
                 /\ fetchSends[i] = 1
                 /\ \E k \in DOMAIN FetchSent : FetchSent[k] = r

\* The unit of the host whose second response is a 301 without Location has
\* sent its outcome, and main has collected it.
C20_Witness ==
  \E i \in Units :
    /\ FollowedNoLocation(i)
    /\ fetchPc[i] = "done"
    /\ fetchResult[i].Redirects = <<D1, "">>
    /\ fetchResult[i].Error = "ErrGet"
    /\ \E k \in DOMAIN allFetchResults : allFetchResults[k] = fetchResult[i]
====
